---- MODULE Spec2Model ----
(***************************************************************************)
(* Model of lshash/storage.py: the storage factory and the three storage   *)
(* backends (InMemoryStorage, RedisStorage, ElasticSearchStorage).         *)
(*                                                                         *)
(* Python values are tagged records (int, str, tuple, list, none); JSON    *)
(* texts are a separate family of tagged records (jnum, jstr, jarr), so    *)
(* json.dumps / json.loads are real conversions: a tuple and a list both   *)
(* encode to a JSON array and every JSON array decodes to a list.          *)
(* Character strings that the code takes apart (Redis keys, prefixes,      *)
(* patterns) are sequences of one-character strings.                       *)
(***************************************************************************)
EXTENDS Integers, Sequences, FiniteSets, Bags, TLC

(* ---------------- bounds of the model ---------------- *)

MaxInst == 2

MaxAppends == 2

Slots == 1..MaxInst

\* the two callers of the concurrent append_val calls
Callers == 1..2

\* Elasticsearch returns the first `size` hits of a search; the search of
\* line 151 passes no size, so the server default applies
DefaultSearchSize == 10

(* ---------------- Python values ---------------- *)

PyNone == [t |-> "none", n |-> 0, s |-> <<>>, v |-> <<>>]

PyInt(n) == [t |-> "int", n |-> n, s |-> <<>>, v |-> <<>>]

PyStr(s) == [t |-> "str", n |-> 0, s |-> s, v |-> <<>>]

PyTuple(v) == [t |-> "tuple", n |-> 0, s |-> <<>>, v |-> v]

PyList(v) == [t |-> "list", n |-> 0, s |-> <<>>, v |-> v]

\* bool(x) as used by `if extra and ...`
Truthy(x) ==
    CASE x.t = "int" -> x.n # 0
      [] x.t = "str" -> x.s # <<>>
      [] x.t = "tuple" -> x.v # <<>>
      [] x.t = "list" -> x.v # <<>>
      [] OTHER -> FALSE

(* ---------------- JSON texts ---------------- *)

JNull == [t |-> "jnull", n |-> 0, s |-> <<>>, v |-> <<>>]

JNum(n) == [t |-> "jnum", n |-> n, s |-> <<>>, v |-> <<>>]

JStr(s) == [t |-> "jstr", n |-> 0, s |-> s, v |-> <<>>]

JArr(v) == [t |-> "jarr", n |-> 0, s |-> <<>>, v |-> v]

RECURSIVE json_dumps(_)
json_dumps(x) ==
    CASE x.t = "int" -> JNum(x.n)
      [] x.t = "str" -> JStr(x.s)
      [] x.t = "tuple" -> JArr([i \in 1..Len(x.v) |-> json_dumps(x.v[i])])
      [] x.t = "list" -> JArr([i \in 1..Len(x.v) |-> json_dumps(x.v[i])])
      [] OTHER -> JNull

RECURSIVE json_loads(_)
json_loads(j) ==
    CASE j.t = "jnum" -> PyInt(j.n)
      [] j.t = "jstr" -> PyStr(j.s)
      [] j.t = "jarr" -> PyList([i \in 1..Len(j.v) |-> json_loads(j.v[i])])
      [] OTHER -> PyNone

(* ---------------- character strings ---------------- *)

DigitChars == <<"0", "1", "2", "3", "4", "5", "6", "7", "8", "9">>

RECURSIVE FormatDigits(_)
FormatDigits(n) ==
    IF n < 10 THEN <<DigitChars[n + 1]>>
    ELSE FormatDigits(n \div 10) \o <<DigitChars[(n % 10) + 1]>>

\* '%.2i' % n : at least two digits, zero padded, sign in front
Format_2i(n) ==
    LET a == IF n < 0 THEN 0 - n ELSE n
        d == FormatDigits(a)
        p == IF Len(d) < 2 THEN <<"0">> \o d ELSE d
    IN IF n < 0 THEN <<"-">> \o p ELSE p

\* s.split(sep) for a one-character separator
RECURSIVE Split(_, _)
Split(s, sep) ==
    IF \A i \in 1..Len(s) : s[i] # sep THEN <<s>>
    ELSE LET i == CHOOSE i \in 1..Len(s) :
                      s[i] = sep /\ \A j \in 1..(i - 1) : s[j] # sep
         IN <<SubSeq(s, 1, i - 1)>> \o Split(SubSeq(s, i + 1, Len(s)), sep)

\* Redis KEYS glob matching, for patterns made of literal characters and '*'
RECURSIVE GlobMatch(_, _)
GlobMatch(p, s) ==
    IF p = <<>> THEN s = <<>>
    ELSE IF Head(p) = "*"
         THEN GlobMatch(Tail(p), s) \/ (s # <<>> /\ GlobMatch(p, Tail(s)))
         ELSE s # <<>> /\ Head(s) = Head(p) /\ GlobMatch(Tail(p), Tail(s))

\* list(a_set): the order is unspecified; one order is fixed here
RECURSIVE SeqOf(_)
SeqOf(S) ==
    IF S = {} THEN <<>>
    ELSE LET x == CHOOSE x \in S : TRUE IN <<x>> \o SeqOf(S \ {x})

Range(q) == {q[i] : i \in 1..Len(q)}

(* ---------------- inputs ---------------- *)

\* keys of the configuration mapping handed to storage(); "other" stands for
\* any key the factory does not recognise
ConfigKeys == {"dict", "redis", "es", "other"}

\* the configurations tried: none, one, or two of the keys present
Configs == {{}, {"other"}, {"dict"}, {"redis"}, {"es"}, {"redis", "es"}}

TableIndices == {1, 10}

HashKeys == {<<"a">>, <<"a", ".", "b">>}

Scalars == {PyInt(0), PyInt(5), PyStr(<<>>)}

Primaries == {PyTuple(<<PyStr(<<"x">>), PyStr(<<"y">>)>>)}

\* (primary, extra): a tuple of scalars followed by a scalar
NestedPayloads == {PyTuple(<<p, e>>) : p \in Primaries, e \in Scalars}

FlatPayloads == {PyTuple(<<PyStr(<<"v", "1">>), PyStr(<<"v", "2">>)>>)}

Payloads == NestedPayloads \cup FlatPayloads

\* one payload of each shape a caller can pass: flat tuples of length 0, 1
\* and 3, (tuple, scalar), (empty tuple, scalar), a 1-tuple holding a tuple,
\* (scalar, tuple), (tuple, tuple) and a 3-tuple that starts with a tuple
ShapePayloads ==
    LET xy == PyTuple(<<PyStr(<<"x">>), PyStr(<<"y">>)>>)
    IN {PyTuple(<<>>),
        PyTuple(<<PyInt(5)>>),
        PyTuple(<<PyInt(0), PyInt(5), PyStr(<<>>)>>),
        PyTuple(<<xy, PyInt(5)>>),
        PyTuple(<<PyTuple(<<>>), PyInt(0)>>),
        PyTuple(<<xy>>),
        PyTuple(<<PyInt(5), xy>>),
        PyTuple(<<xy, xy>>),
        PyTuple(<<PyTuple(<<PyStr(<<"x">>)>>), PyInt(0), PyInt(5)>>)}

(* ---------------- state ---------------- *)

VARIABLES
    redis,          \* module global `redis`: TRUE when the import succeeded, FALSE when None
    Elasticsearch,  \* module global `Elasticsearch`, likewise
    insts,          \* the backend instances the caller holds, one per slot
    redis_db,       \* the Redis server: set of [key, member] (set members per physical key)
    es_docs,        \* the Elasticsearch index: set of [id, source]
    last,           \* the last call made and its outcome
    created,        \* history: the table index a slot's instance was built with
    calls,          \* history: the bag of append_val calls issued so far
    pending         \* per concurrent caller: the append_val call it is inside of

vars == <<redis, Elasticsearch, insts, redis_db, es_docs, last, created, calls, pending>>

NoInst == [name |-> "none", storage |-> <<>>, h_index |-> <<>>, index |-> <<>>]

\* `data` is the argument of bulk(), `ndocs` the number of documents the
\* Elasticsearch index held when bulk() was called
NoCall == [op |-> "none", slot |-> 0, cfg |-> {}, idx |-> 0, key |-> <<>>,
           val |-> PyNone, exc |-> "None", list |-> <<>>, keys |-> {},
           data |-> <<>>, ndocs |-> 0]

Idle == [pc |-> "idle", slot |-> 0, key |-> <<>>, val |-> PyNone,
         pkey |-> <<>>, member |-> JNull]

\* names bound at module level of storage.py (lines 9-24 and the def/class statements)
ModuleGlobals == {"json", "redis", "Elasticsearch", "helpers", "__all__", "storage",
                  "BaseStorage", "InMemoryStorage", "RedisStorage", "ElasticSearchStorage"}

\* the `index` entry of the 'es' configuration
EsIndexName == <<"i", "d", "x">>

\* the documents handed to bulk(): dicts with the fields of line 130-134
Doc(key, val, extra) == [key |-> key, val |-> val, extra |-> extra]

\* the batches tried: empty, one document, two, three
BulkBatches ==
    LET d1 == Doc(<<"a">>, PyTuple(<<PyTuple(<<PyStr(<<"x">>), PyStr(<<"y">>)>>)>>), PyInt(5))
        d2 == Doc(<<"a">>, PyTuple(<<PyTuple(<<PyStr(<<"x">>), PyStr(<<"y">>)>>)>>), PyInt(0))
        d3 == Doc(<<"a", ".", "b">>, PyTuple(<<PyTuple(<<PyStr(<<"x">>), PyStr(<<"y">>)>>)>>), PyInt(5))
    IN {<<>>, <<d1>>, <<d3, d1>>, <<d1, d2, d3>>}

(* ---------------- name resolution ---------------- *)

\* the builtins of Python 2, the dialect the module is written in
\* (`xrange`, line 146; the __future__ import, line 7)
Builtins == {"xrange", "len", "list", "tuple", "set", "dict", "int", "type",
             "enumerate", "object", "ValueError", "ImportError", "NotImplementedError"}

\* Reading a name that is neither a local of the method nor bound at module
\* level raises NameError.  The methods of InMemoryStorage read `index`,
\* which is a parameter of storage() only.
GlobalLookup(name) ==
    IF name \in ModuleGlobals \cup Builtins THEN "None" ELSE "NameError"

(* ---------------- BaseStorage ---------------- *)

\* bulk() of a class that does not override it
BaseStorage_bulk_silent(self, datas) == [exc |-> "None"]

BaseStorage_bulk(self, datas) == [exc |-> "NotImplementedError"]

(* ---------------- constructors and the factory ---------------- *)

\* InMemoryStorage(*args): __init__(self) takes no argument besides self
InMemoryStorage_init(args) ==
    IF Len(args) # 0
    THEN [exc |-> "TypeError", inst |-> NoInst]
    ELSE [exc |-> "None",
          inst |-> [name |-> "dict", storage |-> <<>>, h_index |-> <<>>, index |-> <<>>]]

RedisStorage_init(config, h_index) ==
    IF ~redis
    THEN [exc |-> "ImportError", inst |-> NoInst]
    ELSE [exc |-> "None",
          inst |-> [name |-> "redis", storage |-> <<>>,
                    h_index |-> <<"h">> \o Format_2i(h_index) \o <<".">>,
                    index |-> <<>>]]

\* Elasticsearch(config['connections']) with Elasticsearch = None is a call of None
ElasticSearchStorage_init(config) ==
    IF ~Elasticsearch
    THEN [exc |-> "TypeError", inst |-> NoInst]
    ELSE [exc |-> "None",
          inst |-> [name |-> "es", storage |-> <<>>, h_index |-> <<>>,
                    index |-> EsIndexName]]

\* storage() with a silent in-memory default in place of the final raise
storage_default_dict(storage_config, index) ==
    IF "dict" \in storage_config THEN InMemoryStorage_init(<<"dict">>)
    ELSE IF "redis" \in storage_config THEN RedisStorage_init("redis", index)
    ELSE IF "es" \in storage_config THEN ElasticSearchStorage_init("es")
    ELSE InMemoryStorage_init(<<>>)

storage(storage_config, index) ==
    IF "dict" \in storage_config THEN InMemoryStorage_init(<<"dict">>)
    ELSE IF "redis" \in storage_config THEN RedisStorage_init("redis", index)
    ELSE IF "es" \in storage_config THEN ElasticSearchStorage_init("es")
    ELSE [exc |-> "ValueError", inst |-> NoInst]

(* ---------------- InMemoryStorage ---------------- *)

\* self.storage[index].keys()
InMemoryStorage_keys(self) ==
    [exc |-> GlobalLookup("index"), keys |-> {}]

\* self.storage[index] = dict(); self.storage[index].setdefault(key, set()).update([val])
InMemoryStorage_append_val(self, key, val) ==
    [exc |-> GlobalLookup("index"), storage |-> self.storage]

\* list(self.storage[index].get(key, []))
InMemoryStorage_get_list(self, key) ==
    [exc |-> GlobalLookup("index"), list |-> <<>>]

(* ---------------- RedisStorage ---------------- *)

\* _list() without the table prefix
_list_no_prefix(self, key) == key

_list(self, key) == self.h_index \o key

\* SMEMBERS
smembers(pkey) == {e.member : e \in {x \in redis_db : x.key = pkey}}

\* KEYS pattern
redis_keys(pattern) == {e.key : e \in {x \in redis_db : GlobMatch(pattern, x.key)}}

RedisStorage_keys(self, pattern) ==
    [exc |-> "None",
     keys |-> {Split(k, ".")[2] : k \in redis_keys(self.h_index \o pattern)}]

\* SADD of the JSON text of val
RedisStorage_append_val(self, key, val) ==
    [exc |-> "None",
     db |-> redis_db \cup {[key |-> _list(self, key), member |-> json_dumps(val)]}]

\* get_list without the repair of lines 101-104: only tuple(el)
RepairEntry_tuple_only(el) == PyTuple(el.v)

\* the repair of lines 101-105 on one decoded entry
RepairEntry(el) ==
    LET fixed == IF Len(el.v) = 2 /\ el.v[1].t = "list"
                 THEN [el.v EXCEPT ![1] = PyTuple(el.v[1].v)]
                 ELSE el.v
    IN PyTuple(fixed)

RedisStorage_get_list(self, key) ==
    [exc |-> "None",
     list |-> SeqOf({RepairEntry(json_loads(m)) : m \in smembers(_list(self, key))})]

(* ---------------- ElasticSearchStorage ---------------- *)

\* the identifier Elasticsearch gives a document indexed without an id
AutoId == [auto |-> TRUE, n |-> Cardinality({d \in es_docs : d.id.auto}) + 1]

ElasticSearchStorage_append_val(self, key, val) ==
    IF Len(val.v) = 0
    THEN [exc |-> "IndexError", docs |-> es_docs]
    ELSE LET extra == val.v[Len(val.v)]
             rest == PyTuple(SubSeq(val.v, 1, Len(val.v) - 1))
             body == [key |-> key, val |-> json_dumps(rest), extra |-> json_dumps(extra)]
         IN [exc |-> "None",
             docs |-> es_docs \cup {[index |-> self.index, id |-> AutoId, source |-> body]}]

DocBefore(a, b) ==
    \/ a.id.n < b.id.n
    \/ a.id.n = b.id.n /\ ~a.id.auto /\ b.id.auto

RECURSIVE SortDocs(_)
SortDocs(S) ==
    IF S = {} THEN <<>>
    ELSE LET d == CHOOSE d \in S : \A e \in S \ {d} : DocBefore(d, e)
         IN <<d>> \o SortDocs(S \ {d})

\* the hits of {'query': {'match': {'key': key}}}: the first
\* DefaultSearchSize of the matching documents
search(self, key) ==
    LET all == SortDocs({d \in es_docs : d.index = self.index /\ d.source.key = key})
    IN IF Len(all) > DefaultSearchSize THEN SubSeq(all, 1, DefaultSearchSize) ELSE all

\* get_op_dict(i, datas[i]) (lines 139-145), i counted from 0
get_op_dict(self, id, data) ==
    [index |-> self.index,
     id |-> [auto |-> FALSE, n |-> id],
     source |-> [key |-> data.key, val |-> json_dumps(data.val),
                 extra |-> json_dumps(data.extra)]]

\* bulk() that lets Elasticsearch choose the identifiers
ElasticSearchStorage_bulk_auto_ids(self, datas) ==
    LET n0 == Cardinality({d \in es_docs : d.id.auto})
        body == [i \in 1..Len(datas) |->
                    [get_op_dict(self, i - 1, datas[i]) EXCEPT !.id = [auto |-> TRUE, n |-> n0 + i]]]
    IN [exc |-> "None", docs |-> es_docs \cup Range(body)]

\* helpers.bulk: each operation creates the document with its _id or
\* replaces the one that has it
ElasticSearchStorage_bulk(self, datas) ==
    IF GlobalLookup("xrange") # "None"
    THEN [exc |-> "NameError", docs |-> es_docs]
    ELSE LET body == [i \in 1..Len(datas) |-> get_op_dict(self, i - 1, datas[i])]
             replaced == {d \in es_docs : \E i \in 1..Len(body) :
                              d.index = body[i].index /\ d.id = body[i].id}
         IN [exc |-> "None", docs |-> (es_docs \ replaced) \cup Range(body)]

\* one round of the loop of lines 153-158
HitEntry(hit) ==
    LET val == json_loads(hit.source.val)
        extra == json_loads(hit.source.extra)
        v0 == IF Truthy(extra) /\ val.v[1].t = "list"
              THEN PyTuple(val.v[1].v)
              ELSE val.v[1]
    IN PyTuple(<<v0, extra>>)

ElasticSearchStorage_get_list(self, key) ==
    LET hits == search(self, key)
    IN IF \E i \in 1..Len(hits) : Len(hits[i].source.val.v) = 0
       THEN [exc |-> "IndexError", list |-> <<>>]
       ELSE [exc |-> "None", list |-> [i \in 1..Len(hits) |-> HitEntry(hits[i])]]

\* helpers.scan(...): the hits themselves, each carrying its `key` field
ElasticSearchStorage_keys(self) ==
    LET hits == SortDocs({d \in es_docs : d.index = self.index})
    IN [exc |-> "None",
        list |-> [i \in 1..Len(hits) |->
                    [t |-> "hit", n |-> hits[i].id.n, s |-> hits[i].source.key, v |-> <<>>]]]

(* ---------------- dispatch on the instance's class ---------------- *)

get_list(self, key) ==
    CASE self.name = "dict" -> InMemoryStorage_get_list(self, key)
      [] self.name = "redis" -> RedisStorage_get_list(self, key)
      [] self.name = "es" -> ElasticSearchStorage_get_list(self, key)

\* keys(): a collection of HashKeys (InMemoryStorage, RedisStorage) or a
\* generator of hits (ElasticSearchStorage)
keys(self) ==
    CASE self.name = "dict" ->
            LET r == InMemoryStorage_keys(self)
            IN [exc |-> r.exc, keys |-> r.keys, list |-> <<>>]
      [] self.name = "redis" ->
            LET r == RedisStorage_keys(self, <<"*">>)
            IN [exc |-> r.exc, keys |-> r.keys, list |-> <<>>]
      [] self.name = "es" ->
            LET r == ElasticSearchStorage_keys(self)
            IN [exc |-> r.exc, keys |-> {}, list |-> r.list]

(* ---------------- the operations ---------------- *)

Init ==
    /\ redis \in BOOLEAN
    /\ Elasticsearch \in BOOLEAN
    /\ insts = [s \in Slots |-> NoInst]
    /\ redis_db = {}
    /\ es_docs = {}
    /\ last = NoCall
    /\ created = [s \in Slots |-> 0]
    /\ calls = EmptyBag
    /\ pending = [c \in Callers |-> Idle]

\* the caller keeps its instances in slots 1, 2, ... in the order it built them
FreeSlot(slot) == insts[slot] = NoInst /\ \A t \in Slots : t < slot => insts[t] # NoInst

\* inst = storage(storage_config, index)
Storage(slot, storage_config, index) ==
    LET r == storage(storage_config, index)
    IN /\ FreeSlot(slot)
       /\ insts' = [insts EXCEPT ![slot] = r.inst]
       /\ created' = IF r.exc = "None"
                     THEN [created EXCEPT ![slot] = index]
                     ELSE created
       /\ last' = [NoCall EXCEPT !.op = "storage", !.slot = slot, !.cfg = storage_config,
                                 !.idx = index, !.exc = r.exc]
       /\ UNCHANGED <<redis, Elasticsearch, redis_db, es_docs, calls, pending>>

\* inst = InMemoryStorage()
NewInMemoryStorage(slot) ==
    LET r == InMemoryStorage_init(<<>>)
    IN /\ FreeSlot(slot)
       /\ insts' = [insts EXCEPT ![slot] = r.inst]
       /\ last' = [NoCall EXCEPT !.op = "InMemoryStorage", !.slot = slot, !.exc = r.exc]
       /\ UNCHANGED <<redis, Elasticsearch, redis_db, es_docs, created, calls, pending>>

\* insts[slot].append_val(key, val), while fewer than cap calls were made
AppendValUpTo(slot, key, val, cap) ==
    LET self == insts[slot]
    IN /\ self # NoInst
       /\ BagCardinality(calls) < cap
       /\ calls' = calls (+) SetToBag({[slot |-> slot, key |-> key, val |-> val]})
       /\ CASE self.name = "dict" ->
                 LET r == InMemoryStorage_append_val(self, key, val)
                 IN /\ insts' = [insts EXCEPT ![slot].storage = r.storage]
                    /\ last' = [NoCall EXCEPT !.op = "append_val", !.slot = slot,
                                              !.key = key, !.val = val, !.exc = r.exc]
                    /\ UNCHANGED <<redis_db, es_docs>>
            [] self.name = "redis" ->
                 LET r == RedisStorage_append_val(self, key, val)
                 IN /\ redis_db' = r.db
                    /\ last' = [NoCall EXCEPT !.op = "append_val", !.slot = slot,
                                              !.key = key, !.val = val, !.exc = r.exc]
                    /\ UNCHANGED <<insts, es_docs>>
            [] self.name = "es" ->
                 LET r == ElasticSearchStorage_append_val(self, key, val)
                 IN /\ es_docs' = r.docs
                    /\ last' = [NoCall EXCEPT !.op = "append_val", !.slot = slot,
                                              !.key = key, !.val = val, !.exc = r.exc]
                    /\ UNCHANGED <<insts, redis_db>>
       /\ UNCHANGED <<redis, Elasticsearch, created, pending>>

AppendVal(slot, key, val) == AppendValUpTo(slot, key, val, MaxAppends)

\* insts[slot].bulk(datas)
Bulk(slot, datas) ==
    LET self == insts[slot]
        call == [NoCall EXCEPT !.op = "bulk", !.slot = slot, !.data = datas,
                               !.ndocs = Cardinality(es_docs)]
    IN /\ self # NoInst
       /\ IF self.name = "es"
          THEN LET r == ElasticSearchStorage_bulk(self, datas)
               IN /\ es_docs' = r.docs
                  /\ last' = [call EXCEPT !.exc = r.exc]
          ELSE /\ es_docs' = es_docs
               /\ last' = [call EXCEPT !.exc = BaseStorage_bulk(self, datas).exc]
       /\ UNCHANGED <<redis, Elasticsearch, insts, redis_db, created, calls, pending>>

\* caller c enters insts[slot].append_val(key, val) and runs it up to the
\* command it sends: InMemoryStorage works on the instance at once,
\* RedisStorage evaluates self._list(key) and json.dumps(val) first
CallAppendVal(c, slot, key, val) ==
    LET self == insts[slot]
        call == [Idle EXCEPT !.slot = slot, !.key = key, !.val = val]
    IN /\ pending[c].pc = "idle"
       /\ self.name \in {"dict", "redis"}
       /\ IF self.name = "dict"
          THEN LET r == InMemoryStorage_append_val(self, key, val)
               IN /\ insts' = [insts EXCEPT ![slot].storage = r.storage]
                  /\ pending' = [pending EXCEPT ![c] =
                        [call EXCEPT !.pc = IF r.exc = "None" THEN "done" ELSE "raised"]]
          ELSE /\ insts' = insts
               /\ pending' = [pending EXCEPT ![c] =
                     [call EXCEPT !.pc = "sadd", !.pkey = _list(self, key),
                                  !.member = json_dumps(val)]]
       /\ UNCHANGED <<redis, Elasticsearch, redis_db, es_docs, last, created, calls>>

\* the server executes the SADD of caller c, one command at a time
SendSadd(c) ==
    /\ pending[c].pc = "sadd"
    /\ redis_db' = redis_db \cup {[key |-> pending[c].pkey, member |-> pending[c].member]}
    /\ pending' = [pending EXCEPT ![c].pc = "done"]
    /\ UNCHANGED <<redis, Elasticsearch, insts, es_docs, last, created, calls>>

\* get_list() that creates the bucket it did not find
GetList_creating(slot, key) ==
    LET self == insts[slot]
        r == get_list(self, key)
    IN /\ self # NoInst
       /\ last' = [NoCall EXCEPT !.op = "get_list", !.slot = slot, !.key = key,
                                 !.exc = r.exc, !.list = r.list]
       /\ redis_db' = IF self.name = "redis"
                      THEN redis_db \cup {[key |-> _list(self, key), member |-> JNull]}
                      ELSE redis_db
       /\ UNCHANGED <<redis, Elasticsearch, insts, es_docs, created, calls, pending>>

\* insts[slot].get_list(key)
GetList(slot, key) ==
    LET self == insts[slot]
        r == get_list(self, key)
    IN /\ self # NoInst
       /\ last' = [NoCall EXCEPT !.op = "get_list", !.slot = slot, !.key = key,
                                 !.exc = r.exc, !.list = r.list]
       /\ UNCHANGED <<redis, Elasticsearch, insts, redis_db, es_docs, created, calls, pending>>

\* insts[slot].keys()
Keys(slot) ==
    LET self == insts[slot]
        r == keys(self)
    IN /\ self # NoInst
       /\ last' = [NoCall EXCEPT !.op = "keys", !.slot = slot,
                                 !.exc = r.exc, !.keys = r.keys, !.list = r.list]
       /\ UNCHANGED <<redis, Elasticsearch, insts, redis_db, es_docs, created, calls, pending>>

Next ==
    \/ \E slot \in Slots : NewInMemoryStorage(slot)
    \/ \E slot \in Slots, c \in Configs, i \in TableIndices : Storage(slot, c, i)
    \/ \E slot \in Slots, k \in HashKeys, p \in Payloads : AppendVal(slot, k, p)
    \/ \E slot \in Slots, k \in HashKeys : GetList(slot, k)
    \/ \E slot \in Slots : Keys(slot)

Spec == Init /\ [][Next]_vars

(* ---------------- narrower specifications ---------------- *)

\* the factory and the constructors alone, in every import situation
NextFactory ==
    \/ \E slot \in Slots : NewInMemoryStorage(slot)
    \/ \E slot \in Slots, c \in Configs, i \in TableIndices : Storage(slot, c, i)

SpecFactory == Init /\ [][NextFactory]_vars

\* a process with redis-py installed that builds Redis backends only and
\* stores (primary, extra) payloads
InitRedis == Init /\ redis /\ ~Elasticsearch

RedisConfigs == {c \in Configs : "redis" \in c /\ "dict" \notin c}

NextRedis ==
    \/ \E slot \in Slots, c \in RedisConfigs, i \in TableIndices : Storage(slot, c, i)
    \/ \E slot \in Slots, k \in HashKeys, p \in NestedPayloads : AppendVal(slot, k, p)
    \/ \E slot \in Slots, k \in HashKeys : GetList(slot, k)
    \/ \E slot \in Slots : Keys(slot)

SpecRedis == InitRedis /\ [][NextRedis]_vars

\* the two backends without a bulk() of their own: InMemoryStorage and
\* RedisStorage instances of one table
NextBase ==
    \/ \E slot \in Slots : NewInMemoryStorage(slot)
    \/ \E slot \in Slots : Storage(slot, {"redis"}, 1)
    \/ \E slot \in Slots, k \in HashKeys, p \in FlatPayloads : AppendVal(slot, k, p)
    \/ \E slot \in Slots, d \in BulkBatches : Bulk(slot, d)

SpecBase == InitRedis /\ [][NextBase]_vars

\* the same two backends, written to and read
NextReads ==
    \/ \E slot \in Slots : NewInMemoryStorage(slot)
    \/ \E slot \in Slots : Storage(slot, {"redis"}, 1)
    \/ \E slot \in Slots, k \in HashKeys, p \in NestedPayloads : AppendVal(slot, k, p)
    \/ \E slot \in Slots, k \in HashKeys : GetList(slot, k)
    \/ \E slot \in Slots : Keys(slot)

SpecReads == InitRedis /\ [][NextReads]_vars

\* one Redis table that is given payloads of every shape under one key
NextShapes ==
    \/ \E slot \in Slots : Storage(slot, {"redis"}, 1)
    \/ \E slot \in Slots, p \in ShapePayloads : AppendVal(slot, <<"a">>, p)
    \/ \E slot \in Slots : GetList(slot, <<"a">>)

SpecShapes == InitRedis /\ [][NextShapes]_vars

\* two callers that each make one append_val call on an InMemoryStorage or
\* RedisStorage instance, after earlier sequential calls
NextConcurrent ==
    \/ \E slot \in Slots : NewInMemoryStorage(slot)
    \/ \E slot \in Slots : Storage(slot, {"redis"}, 1)
    \/ \E slot \in Slots, k \in HashKeys, p \in FlatPayloads : AppendVal(slot, k, p)
    \/ \E c \in Callers, slot \in Slots, k \in HashKeys, p \in NestedPayloads :
           CallAppendVal(c, slot, k, p)
    \/ \E c \in Callers : SendSadd(c)

SpecConcurrent == InitRedis /\ [][NextConcurrent]_vars

\* a process with elasticsearch installed that builds Elasticsearch backends
\* on one index
InitEs == Init /\ Elasticsearch /\ ~redis

NextEs ==
    \/ \E slot \in Slots : Storage(slot, {"es"}, 1)
    \/ \E slot \in Slots, k \in HashKeys, p \in FlatPayloads : AppendVal(slot, k, p)
    \/ \E slot \in Slots, d \in BulkBatches : Bulk(slot, d)
    \/ \E slot \in Slots, k \in HashKeys : GetList(slot, k)

SpecEs == InitEs /\ [][NextEs]_vars

\* one Elasticsearch backend that is appended to until a search has more
\* matching documents than it returns
NextEsMany ==
    \/ Storage(1, {"es"}, 1)
    \/ \E k \in HashKeys, p \in FlatPayloads : AppendValUpTo(1, k, p, DefaultSearchSize + 1)
    \/ \E k \in HashKeys : GetList(1, k)

SpecEsMany == InitEs /\ [][NextEsMany]_vars

(* ---------------- vocabulary of the properties ---------------- *)

\* two of the caller's instances read and write the same buckets
SameStore(a, b) ==
    /\ a.name = b.name
    /\ a.name \in {"redis", "es"}
    /\ a.h_index = b.h_index
    /\ a.index = b.index

\* append_val(key, .) was issued on the store that the instance in `slot` serves
Appended(slot, key) ==
    \E c \in BagToSet(calls) :
        /\ c.key = key
        /\ (c.slot = slot \/ SameStore(insts[c.slot], insts[slot]))

Count(x, q) == Cardinality({i \in 1..Len(q) : q[i] = x})

RecognizedKeys == {"dict", "redis", "es"}

\* the exceptions storage.py raises on purpose for an unusable configuration
\* (line 35 and line 82)
ConfigurationErrors == {"ValueError", "ImportError"}

\* the branch storage() takes leads to a networked backend whose client
\* library failed to import
SelectedClientMissing(cfg) ==
    /\ "dict" \notin cfg
    /\ \/ "redis" \in cfg /\ ~redis
       \/ "redis" \notin cfg /\ "es" \in cfg /\ ~Elasticsearch

(* ---------------- C1 ---------------- *)

\* C1: on every backend, get_list(k) on a store on which append_val(k, .) was
\* never called returns the empty list and raises nothing.
C1_AbsentKeyEmptyList ==
    \A s \in Slots, k \in HashKeys :
        (insts[s] # NoInst /\ ~Appended(s, k)) =>
            /\ get_list(insts[s], k).exc = "None"
            /\ get_list(insts[s], k).list = <<>>

(* ---------------- C2 ---------------- *)

\* C2: every payload ever appended under a key is still contained in
\* get_list(key), whatever was appended afterwards.
C2_NeverDiscards ==
    \A c \in BagToSet(calls) :
        /\ get_list(insts[c.slot], c.key).exc = "None"
        /\ c.val \in Range(get_list(insts[c.slot], c.key).list)

(* ---------------- C3 ---------------- *)

\* C3: on the InMemory and KeySet backends a payload appended twice under one
\* key occurs exactly once in get_list(key).
C3_AppendIdempotent ==
    \A c \in BagToSet(calls) :
        (insts[c.slot].name \in {"dict", "redis"} /\ CopiesIn(c, calls) >= 2) =>
            /\ get_list(insts[c.slot], c.key).exc = "None"
            /\ Count(c.val, get_list(insts[c.slot], c.key).list) = 1

(* ---------------- C4 ---------------- *)

\* C4: storage(config, index) with 'dict' in config returns an InMemory
\* instance, and on an InMemory instance append_val(k, p) succeeds and leaves
\* get_list(k) = [p].
C4_DictFactoryReady ==
    /\ (last.op = "storage" /\ "dict" \in last.cfg) =>
            (last.exc = "None" /\ insts[last.slot].name = "dict")
    /\ (last.op = "append_val" /\ insts[last.slot].name = "dict"
            /\ BagCardinality(calls) = 1) =>
            /\ last.exc = "None"
            /\ get_list(insts[last.slot], last.key).exc = "None"
            /\ get_list(insts[last.slot], last.key).list = <<last.val>>

(* ---------------- C5 ---------------- *)

\* C5: a storage() call whose configuration holds none of 'dict', 'redis',
\* 'es' raises the configuration error (ValueError) and leaves the caller
\* without a new instance.
C5_UnrecognizedConfigFails ==
    [][(last'.op = "storage" /\ last' # last /\ last'.cfg \cap RecognizedKeys = {}) =>
            (last'.exc = "ValueError" /\ insts' = insts)]_vars

\* an empty configuration was refused
C5_Witness ==
    /\ last.op = "storage"
    /\ last.cfg = {}
    /\ last.exc = "ValueError"
    /\ insts[last.slot] = NoInst

(* ---------------- C6 ---------------- *)

\* C6: when the client library of the selected networked backend is missing,
\* storage() fails with the configuration error and returns no instance, for
\* 'redis' and for 'es' alike.
C6_MissingClientConfigurationError ==
    (last.op = "storage" /\ SelectedClientMissing(last.cfg)) =>
        (last.exc \in ConfigurationErrors /\ insts[last.slot] = NoInst)

(* ---------------- C7 ---------------- *)

\* C7: on the KeySet and DocumentSearch backends every (primary, extra)
\* payload appended under k is contained in get_list(k), the primary being a
\* tuple again.
C7_NestedRoundTrip ==
    \A c \in BagToSet(calls) :
        (insts[c.slot].name \in {"redis", "es"} /\ c.val \in NestedPayloads) =>
            /\ get_list(insts[c.slot], c.key).exc = "None"
            /\ c.val \in Range(get_list(insts[c.slot], c.key).list)

(* ---------------- C8 ---------------- *)

\* C8: an append_val through a KeySet instance changes neither get_list(k')
\* nor keys() of a KeySet instance built with another table index, for every
\* key k'.
C8_TableIsolation ==
    [][\A s \in {last'.slot} \cap Slots, t \in Slots :
          (/\ last'.op = "append_val"
           /\ insts[s].name = "redis" /\ insts[t].name = "redis"
           /\ created[s] # created[t]) =>
              /\ \A k \in HashKeys :
                    RedisStorage_get_list(insts[t], k)' = RedisStorage_get_list(insts[t], k)
              /\ RedisStorage_keys(insts[t], <<"*">>)' = RedisStorage_keys(insts[t], <<"*">>)]_vars

\* a payload stored through one table is seen there and not in the other
C8_Witness ==
    \E s \in Slots, t \in Slots :
        /\ insts[s].name = "redis" /\ insts[t].name = "redis"
        /\ created[s] # created[t]
        /\ last.op = "append_val" /\ last.slot = s /\ last.exc = "None"
        /\ RedisStorage_get_list(insts[s], last.key).list = <<last.val>>
        /\ RedisStorage_get_list(insts[t], last.key).list = <<>>
        /\ RedisStorage_keys(insts[t], <<"*">>).keys = {}

(* ---------------- C9 ---------------- *)

\* C9: on the KeySet backend keys() contains every HashKey that was passed to
\* append_val, unaltered, also when the HashKey contains '.'.
C9_KeysReturnHashKeys ==
    \A c \in BagToSet(calls) :
        insts[c.slot].name = "redis" =>
            c.key \in RedisStorage_keys(insts[c.slot], <<"*">>).keys

(* ---------------- C10 ---------------- *)

\* C10: on the InMemory and KeySet backends keys() raises nothing and reports
\* exactly the HashKeys that hold a payload: each reported key was appended to
\* and has a non-empty get_list, and each key appended to is reported.
C10_KeysExactlyNonEmpty ==
    \A s \in Slots :
        insts[s].name \in {"dict", "redis"} =>
            /\ keys(insts[s]).exc = "None"
            /\ \A k \in keys(insts[s]).keys :
                  /\ Appended(s, k)
                  /\ get_list(insts[s], k).list # <<>>
            /\ \A k \in HashKeys : Appended(s, k) => k \in keys(insts[s]).keys

(* ---------------- C11 ---------------- *)

\* the instances of the backends that inherit bulk()
BaseSlots == {s \in Slots : insts[s].name \in {"dict", "redis"}}

\* C11: bulk(data) on an InMemory or KeySet instance raises the not-supported
\* error (NotImplementedError) for every data and leaves the instances and
\* the Redis sets as they were: get_list and keys of the instance give the
\* same outcome after the call as before it.
C11_BulkNotSupported ==
    [][(last'.op = "bulk" /\ last'.slot \in BaseSlots) =>
            /\ last'.exc = "NotImplementedError"
            /\ insts' = insts
            /\ redis_db' = redis_db
            /\ \A s \in {last'.slot} \cap Slots, k \in HashKeys :
                  /\ keys(insts[s])' = keys(insts[s])
                  /\ get_list(insts[s], k)' = get_list(insts[s], k)]_vars

\* a non-empty batch was refused by a KeySet instance that holds a payload
C11_Witness ==
    /\ last.op = "bulk"
    /\ insts[last.slot].name = "redis"
    /\ last.data # <<>>
    /\ last.exc = "NotImplementedError"
    /\ \E k \in HashKeys : get_list(insts[last.slot], k).list # <<>>

(* ---------------- C19 ---------------- *)

\* C19: get_list(k) and keys() on an InMemory or KeySet instance change
\* nothing: the instances and the Redis sets stay as they are (no bucket is
\* created for an absent key), and keys() of the instance gives the same
\* outcome afterwards.
C19_ReadsHaveNoEffect ==
    [][(last'.op \in {"get_list", "keys"} /\ last'.slot \in BaseSlots) =>
            /\ insts' = insts
            /\ redis_db' = redis_db
            /\ \A s \in {last'.slot} \cap Slots :
                  keys(insts[s])' = keys(insts[s])]_vars

\* get_list of an absent key returned [] on a KeySet instance that holds
\* another key, and the absent key is still not reported
C19_Witness ==
    /\ last.op = "get_list"
    /\ insts[last.slot].name = "redis"
    /\ ~Appended(last.slot, last.key)
    /\ last.exc = "None" /\ last.list = <<>>
    /\ keys(insts[last.slot]).keys # {}
    /\ last.key \notin keys(insts[last.slot]).keys

(* ---------------- C12 ---------------- *)

\* the payload a bulk document stands for: its val elements followed by extra
PayloadOf(doc) == PyTuple(doc.val.v \o <<doc.extra>>)

\* C12: after one bulk(data) on an empty index, get_list(k) of every key k of
\* the batch raises nothing, has one entry per document of the batch with key
\* k, and contains the payload of each of them.
C12_BulkThenGetList ==
    (last.op = "bulk" /\ insts[last.slot].name = "es" /\ last.ndocs = 0) =>
        \A i \in 1..Len(last.data) :
            LET r == get_list(insts[last.slot], last.data[i].key)
            IN /\ last.exc = "None"
               /\ r.exc = "None"
               /\ Len(r.list) =
                    Cardinality({j \in 1..Len(last.data) : last.data[j].key = last.data[i].key})
               /\ PayloadOf(last.data[i]) \in Range(r.list)

(* ---------------- C13 ---------------- *)

\* the append_val call of caller c has returned or raised
Completed(c) == pending[c].pc \in {"done", "raised"}

\* C13: when two callers have each completed an append_val on the same key of
\* the same InMemory or KeySet store, get_list of that key raises nothing and
\* contains both payloads and every payload appended there before.
C13_ConcurrentAppendsKept ==
    \A c1 \in Callers : \A c2 \in Callers \ {c1} :
        ( /\ Completed(c1) /\ Completed(c2)
          /\ pending[c1].key = pending[c2].key
          /\ (pending[c1].slot = pending[c2].slot
                \/ SameStore(insts[pending[c1].slot], insts[pending[c2].slot])) ) =>
            LET r == get_list(insts[pending[c1].slot], pending[c1].key)
            IN /\ r.exc = "None"
               /\ pending[c1].val \in Range(r.list)
               /\ pending[c2].val \in Range(r.list)
               /\ \A c \in BagToSet(calls) :
                     (c.key = pending[c1].key
                        /\ (c.slot = pending[c1].slot
                              \/ SameStore(insts[c.slot], insts[pending[c1].slot])))
                       => c.val \in Range(r.list)

(* ---------------- C14 ---------------- *)

\* append_val(key, .) was issued through a DocumentSearch instance that the
\* factory built with the table index of the instance in `slot`
AppendedInTable(slot, key) ==
    \E c \in BagToSet(calls) :
        /\ c.key = key
        /\ insts[c.slot].name = "es"
        /\ created[c.slot] = created[slot]

\* C14: a DocumentSearch instance built by storage(config, i) sees under a key
\* only what was appended through instances built with the same table index:
\* with no such append, get_list(k) is empty and keys() has no hit for k.
C14_EsTableIsolation ==
    \A t \in Slots, k \in HashKeys :
        (insts[t].name = "es" /\ ~AppendedInTable(t, k)) =>
            /\ get_list(insts[t], k).list = <<>>
            /\ \A h \in Range(keys(insts[t]).list) : h.s # k

(* ---------------- C15 ---------------- *)

IsScalar(x) == x.t \in {"int", "str"}

\* a tuple of scalars, of any length
IsFlat(p) == p.t = "tuple" /\ \A i \in 1..Len(p.v) : IsScalar(p.v[i])

\* (primary, extra): a tuple of scalars followed by one scalar
IsPrimaryExtra(p) ==
    /\ p.t = "tuple"
    /\ Len(p.v) = 2
    /\ IsFlat(p.v[1])
    /\ IsScalar(p.v[2])

\* C15 as stated: on the KeySet backend every payload made of scalars and
\* nested tuples of scalars, whatever its shape, is contained in get_list(k)
\* after append_val(k, payload).
C15_EveryShapeRoundTrips ==
    \A c \in BagToSet(calls) :
        insts[c.slot].name = "redis" =>
            c.val \in Range(get_list(insts[c.slot], c.key).list)

\* C15 (amended): on the KeySet backend every payload that is a tuple of
\* scalars of any length, or a pair of a tuple of scalars and a scalar, is
\* contained in get_list(k) after append_val(k, payload).
C15_RepairedShapesRoundTrip ==
    \A c \in BagToSet(calls) :
        (insts[c.slot].name = "redis" /\ (IsFlat(c.val) \/ IsPrimaryExtra(c.val))) =>
            /\ get_list(insts[c.slot], c.key).exc = "None"
            /\ c.val \in Range(get_list(insts[c.slot], c.key).list)

\* get_list returned a flat 3-tuple and a (tuple, scalar) pair that were
\* appended under the key
C15_Witness ==
    /\ last.op = "get_list"
    /\ insts[last.slot].name = "redis"
    /\ \E e \in Range(last.list) : IsFlat(e) /\ Len(e.v) = 3
    /\ \E e \in Range(last.list) : IsPrimaryExtra(e) /\ Len(e.v[1].v) = 2
    /\ \A e \in Range(last.list) :
          \E c \in BagToSet(calls) : c.key = last.key /\ c.val = e

(* ---------------- C16 ---------------- *)

\* the documents that came from append_val
AppendedDocs == {d \in es_docs : d.id.auto}

\* C16: on the DocumentSearch backend every append_val call makes one
\* document, and for every appended payload of length n >= 2 get_list(key)
\* raises nothing and contains (payload[0], payload[n-1]), payload[0] being a
\* tuple again when it was one.
C16_SplitAndReconstruct ==
    (\A c \in BagToSet(calls) : insts[c.slot].name = "es") =>
        /\ Cardinality(AppendedDocs) = BagCardinality(calls)
        /\ \A c \in BagToSet(calls) :
              Len(c.val.v) >= 2 =>
                 /\ get_list(insts[c.slot], c.key).exc = "None"
                 /\ PyTuple(<<c.val.v[1], c.val.v[Len(c.val.v)]>>)
                       \in Range(get_list(insts[c.slot], c.key).list)

(* ---------------- C17 ---------------- *)

\* the number of append_val(key, .) calls issued so far
AppendsUnder(key) ==
    LET S == {c \in BagToSet(calls) : c.key = key}
    IN BagCardinality([c \in S |-> calls[c]])

\* C17: on the DocumentSearch backend n append_val calls create n documents
\* and get_list(k) returns one entry for each call made under k, duplicates
\* included, all equal when the calls pass the same payload.
C17_NoCollapse ==
    (\A c \in BagToSet(calls) : insts[c.slot].name = "es") =>
        /\ Cardinality(es_docs) = BagCardinality(calls)
        /\ \A s \in Slots, k \in HashKeys :
              insts[s].name = "es" =>
                 /\ get_list(insts[s], k).exc = "None"
                 /\ Len(get_list(insts[s], k).list) = AppendsUnder(k)
                 /\ \A e \in Range(get_list(insts[s], k).list) :
                       e = get_list(insts[s], k).list[1]

(* ---------------- C18 ---------------- *)

BulkDocsOf(docs) == {d \in docs : ~d.id.auto}

Max(a, b) == IF a > b THEN a ELSE b

\* C18: bulk(data) on the DocumentSearch backend gives the document at
\* position i the identifier i: afterwards the document with identifier i is
\* data[i] for every i < len(data), bulk documents with identifiers from
\* len(data) on and documents created by append_val are as before, and the
\* index holds max(number of bulk documents before, len(data)) bulk documents.
C18_PositionalBulkIds ==
    [][\A s \in {last'.slot} \cap Slots :
          (last'.op = "bulk" /\ insts[s].name = "es") =>
             LET data == last'.data
             IN /\ last'.exc = "None"
                /\ \A i \in 1..Len(data) :
                      \E d \in es_docs' :
                         /\ d.id = [auto |-> FALSE, n |-> i - 1]
                         /\ d.index = insts[s].index
                         /\ d.source.key = data[i].key
                         /\ json_loads(d.source.extra) = data[i].extra
                         /\ d.source.val = json_dumps(data[i].val)
                /\ {d \in BulkDocsOf(es_docs') : d.id.n >= Len(data)}
                     = {d \in BulkDocsOf(es_docs) : d.id.n >= Len(data)}
                /\ es_docs' \ BulkDocsOf(es_docs') = es_docs \ BulkDocsOf(es_docs)
                /\ Cardinality(BulkDocsOf(es_docs'))
                     = Max(Cardinality(BulkDocsOf(es_docs)), Len(data))]_vars

\* a batch of two was written over a batch of three, next to a document
\* made by append_val
C18_Witness ==
    /\ last.op = "bulk"
    /\ insts[last.slot].name = "es"
    /\ Len(last.data) = 2
    /\ Cardinality(BulkDocsOf(es_docs)) = 3
    /\ es_docs \ BulkDocsOf(es_docs) # {}
    /\ last.ndocs = Cardinality(es_docs)

====
